---- MODULE Spec2Model ----
(***************************************************************************)
(* Core-dump tools of open-grid-monitor (firmware/esp32s3_ade7953/tools):  *)
(* the chunk buffer shared by CoreDumpAnalyzer and CoreDumpRequester, the  *)
(* log-file path of the analyzer, and the request session of both classes  *)
(* (network thread running on_connect / on_message, main thread polling).  *)
(***************************************************************************)
EXTENDS Integers, Sequences, FiniteSets, TLC

VARIABLES
    impl,               \* "analyzer" (coredump_analyzer.py) or "requester" (request_coredump.py)
    device_id,          \* argument of the request: a device id, or "None" (broadcast)
    chunks,             \* self.chunks: chunk index -> decoded bytes
    header_info,        \* self.header_info ("None" or the header object)
    total_chunks,       \* self.total_chunks
    total_size,         \* self.total_size
    request_completed,  \* self.request_completed
    request_timeout,    \* self.request_timeout
    pc,                 \* position of the main thread
    loop_running,       \* the client's network thread runs (loop_start .. loop_stop)
    conn,               \* connection to the broker: "none", "up", "down" or "refused"
    subs,               \* topic filters subscribed at the broker
    cmd_count,          \* number of "coredump" commands published
    now,                \* time.time(), in seconds
    start_time,         \* start_time of the wait loop
    wake,               \* end of the current time.sleep(1)
    retval,             \* value returned by the operation ("none" before it returns)
    outfile,            \* file written by save_coredump
    any_msg,            \* process_mqtt_log: coredump_messages is not empty
    src,                \* the transfer a device publishes: index -> chunk message payload
    got,                \* history: indices of src handed to _process_message so far
    last,               \* history: the index of src handed over by the last step, and
                        \*   whether it had been handed over before (idx = -1: none)
    decl,               \* history: the largest total_chunks declared by a chunk message
                        \*   that was stored so far (0: none)
    mon,                \* history of the request session (see MonInit)
    connected,          \* MQTTOTAUpdater.connected
    discovered_devices, \* MQTTOTAUpdater.discovered_devices
    selected_device,    \* MQTTOTAUpdater.selected_device ("None" or a device id)
    ota_start_time,     \* MQTTOTAUpdater.ota_start_time: <<>> for None, else <<t>>
    ota_progress_data,  \* MQTTOTAUpdater.ota_progress_data: sequence of samples
    firmware_size,      \* MQTTOTAUpdater.firmware_size
    status_updates,     \* MQTTOTAUpdater.status_updates: the messages on_message has seen
    auto_mode,          \* main: args.automatic
    device_list,        \* the list discover_devices returned
    sighted,            \* history: the devices whose telemetry was delivered while the
                        \*   discovery window was open, in order of first arrival
    sent_at             \* history: Len(status_updates) when the OTA command was
                        \*   published (-1 before)

bufvars == <<chunks, header_info, total_chunks, total_size>>
sessvars == <<impl, device_id, request_completed, request_timeout, loop_running,
              conn, subs, cmd_count, now, start_time, wake, mon>>
xfervars == <<src, got, last, decl>>
otavars == <<connected, discovered_devices, selected_device, ota_start_time,
             ota_progress_data, firmware_size, status_updates, auto_mode, device_list,
             sighted, sent_at>>
corevars == <<impl, device_id, chunks, header_info, total_chunks, total_size,
              request_completed, request_timeout, loop_running, conn, cmd_count, retval,
              outfile, any_msg, src, got, last, decl, mon>>
vars == <<impl, device_id, chunks, header_info, total_chunks, total_size,
          request_completed, request_timeout, pc, loop_running, conn, subs, cmd_count,
          now, start_time, wake, retval, outfile, any_msg, src, got, last, decl, mon, connected, discovered_devices,
          selected_device, ota_start_time, ota_progress_data, firmware_size,
          status_updates, auto_mode, device_list, sighted, sent_at>>

----------------------------------------------------------------------------
(* Bounds of the model *)

MaxChunks == 3      \* chunk indices range over -1 .. MaxChunks-1, declared totals over 0 .. MaxChunks
MaxSize == 1        \* total_size values of a complete message range over 0 .. MaxSize
Timeout == 1        \* the timeout argument of a request, in seconds

(* Program constants *)

PollInterval == 1   \* time.sleep(1) of the wait loop

BASE_TOPIC == "open_grid_monitor"

----------------------------------------------------------------------------
(* Payloads.  A payload is what msg.payload.decode('utf-8') gives: either a
   JSON object (json = TRUE) whose absent keys read as the defaults of
   data.get, or text that json.loads rejects.  Status and error payloads
   are read through `text`, a sequence of words. *)

NoText == <<>>

JsonChunk(i, t, d) ==
    [json |-> TRUE, chunk_index |-> i, total_chunks |-> t, data |-> d,
     total_size |-> 0, hdr |-> "{}", text |-> NoText]

JsonHeader(h) ==
    [json |-> TRUE, chunk_index |-> -1, total_chunks |-> 0, data |-> "",
     total_size |-> 0, hdr |-> h, text |-> NoText]

JsonComplete(s) ==
    [json |-> TRUE, chunk_index |-> -1, total_chunks |-> 0, data |-> "",
     total_size |-> s, hdr |-> "{}", text |-> NoText]

Text(t) ==
    [json |-> FALSE, chunk_index |-> -1, total_chunks |-> 0, data |-> "",
     total_size |-> 0, hdr |-> "{}", text |-> t]

Garbage == Text(<<"not", "json">>)

(* base64.b64decode on the data strings of the model: "QUI=" is b"AB",
   "Q0Q=" is b"CD", "" is b""; "QUI" raises (incorrect padding). *)
B64Valid(s) == s \in {"QUI=", "Q0Q=", ""}

B64Decode(s) ==
    CASE s = "QUI=" -> <<65, 66>>
      [] s = "Q0Q=" -> <<67, 68>>
      [] OTHER -> <<>>

GoodData == {"QUI=", "Q0Q="}
AllData == GoodData \union {"", "QUI"}

----------------------------------------------------------------------------
(* The chunk buffer: the four fields the _process_* methods write. *)

Buf(c, h, t, s) == [chunks |-> c, header_info |-> h, total_chunks |-> t, total_size |-> s]

CurBuf == Buf(chunks, header_info, total_chunks, total_size)

NoChunks == [i \in {} |-> <<>>]

Max(a, b) == IF a >= b THEN a ELSE b

Store(c, k, d) == [i \in (DOMAIN c) \union {k} |-> IF i = k THEN d ELSE c[i]]

(* _process_header *)
ProcessHeader(b, data) == [b EXCEPT !.header_info = data.hdr]

(* _process_chunk, with total_chunks overwritten instead of raised *)
ProcessChunk_NoMax(b, data) ==
    IF data.chunk_index >= 0 /\ data.data # "" /\ B64Valid(data.data)
    THEN [b EXCEPT !.chunks = Store(b.chunks, data.chunk_index, B64Decode(data.data)),
                   !.total_chunks = data.total_chunks]
    ELSE b

(* _process_chunk, without the test on the sign of chunk_index *)
ProcessChunk_NoIndexTest(b, data) ==
    IF data.data # "" /\ B64Valid(data.data)
    THEN [b EXCEPT !.chunks = Store(b.chunks, data.chunk_index, B64Decode(data.data)),
                   !.total_chunks = Max(b.total_chunks, data.total_chunks)]
    ELSE b

(* _process_chunk, with total_chunks taken from the first stored chunk only *)
ProcessChunk_FirstTotal(b, data) ==
    IF data.chunk_index >= 0 /\ data.data # "" /\ B64Valid(data.data)
    THEN [b EXCEPT !.chunks = Store(b.chunks, data.chunk_index, B64Decode(data.data)),
                   !.total_chunks = IF b.total_chunks = 0 THEN data.total_chunks
                                    ELSE b.total_chunks]
    ELSE b

(* _process_chunk, storing every chunk under index 0 *)
ProcessChunk_Index0(b, data) ==
    IF data.chunk_index >= 0 /\ data.data # "" /\ B64Valid(data.data)
    THEN [b EXCEPT !.chunks = Store(b.chunks, 0, B64Decode(data.data)),
                   !.total_chunks = Max(b.total_chunks, data.total_chunks)]
    ELSE b

(* _process_chunk: `if chunk_index >= 0 and chunk_data`, then decode, store,
   raise total_chunks; a decode exception is caught before anything is stored *)
ProcessChunk(b, data) ==
    IF data.chunk_index >= 0 /\ data.data # ""
    THEN IF B64Valid(data.data)
         THEN [b EXCEPT !.chunks = Store(b.chunks, data.chunk_index, B64Decode(data.data)),
                        !.total_chunks = Max(b.total_chunks, data.total_chunks)]
         ELSE b
    ELSE b

(* _process_complete, also taking the chunks received as the declared total *)
ProcessComplete_ClosesTotal(b, data) ==
    [b EXCEPT !.total_size = data.total_size,
              !.total_chunks = Cardinality(DOMAIN b.chunks)]

(* _process_complete *)
ProcessComplete(b, data) == [b EXCEPT !.total_size = data.total_size]

----------------------------------------------------------------------------
(* Topics are sequences of '/'-separated segments.  `'/w' in topic` holds
   when a segment after the first starts with w, `'/w/' in topic` when a
   segment strictly between the first and the last is w; over the segment
   vocabulary of the model "starts with" is equality. *)

HasSeg(topic, w) == \E i \in 2..Len(topic) : topic[i] = w

HasInnerSeg(topic, w) == \E i \in 2..(Len(topic) - 1) : topic[i] = w

StatusTopic(d) == <<BASE_TOPIC, d, "status">>
ErrorTopic(d) == <<BASE_TOPIC, d, "error">>
HeaderTopic(d) == <<BASE_TOPIC, d, "coredump", "header">>
ChunkTopic(d, i) == <<BASE_TOPIC, d, "coredump", "chunk", ToString(i)>>
CompleteTopic(d) == <<BASE_TOPIC, d, "coredump", "complete">>

Msg(t, p) == [topic |-> t, payload |-> p]

----------------------------------------------------------------------------
(* _validate_chunks and save_coredump *)

RECURSIVE MissingFrom(_, _, _)
MissingFrom(i, c, t) ==
    IF i >= t THEN <<>>
    ELSE (IF i \notin DOMAIN c THEN <<i>> ELSE <<>>) \o MissingFrom(i + 1, c, t)

(* the missing_chunks list, with the loop starting at index 1 *)
MissingChunks_From1(b) == MissingFrom(1, b.chunks, b.total_chunks)

(* the missing_chunks list built by the loop over range(total_chunks) *)
MissingChunks(b) == MissingFrom(0, b.chunks, b.total_chunks)

(* _validate_chunks, without the test on total_chunks = 0 *)
ValidateChunks_NoZeroTest(b) == MissingChunks(b) = <<>>

(* _validate_chunks *)
ValidateChunks(b) ==
    IF b.total_chunks = 0 THEN FALSE
    ELSE IF MissingChunks(b) # <<>> THEN FALSE
    ELSE TRUE

RECURSIVE WriteFrom(_, _, _)
WriteFrom(i, c, t) ==
    IF i >= t THEN <<>>
    ELSE (IF i \in DOMAIN c THEN c[i] ELSE <<>>) \o WriteFrom(i + 1, c, t)

RECURSIVE WriteDown(_, _)
WriteDown(i, c) ==
    IF i < 0 THEN <<>>
    ELSE (IF i \in DOMAIN c THEN c[i] ELSE <<>>) \o WriteDown(i - 1, c)

NoFile == [written |-> FALSE, bytes |-> <<>>]

(* save_coredump, writing the chunks from the highest index down *)
SaveCoredump_Reversed(b) ==
    IF DOMAIN b.chunks = {} THEN NoFile
    ELSE [written |-> TRUE, bytes |-> WriteDown(b.total_chunks - 1, b.chunks)]

(* save_coredump: no file when chunks is empty, otherwise the stored chunks
   of range(total_chunks) in index order *)
SaveCoredump(b) ==
    IF DOMAIN b.chunks = {} THEN NoFile
    ELSE [written |-> TRUE, bytes |-> WriteFrom(0, b.chunks, b.total_chunks)]

----------------------------------------------------------------------------
(* CoreDumpAnalyzer._process_message: json.loads, then dispatch on the
   substrings '/header', '/chunk/', '/complete' in that order *)

ProcessMessage(b, m) ==
    IF ~m.payload.json THEN b
    ELSE IF HasSeg(m.topic, "header") THEN ProcessHeader(b, m.payload)
    ELSE IF HasInnerSeg(m.topic, "chunk") THEN ProcessChunk(b, m.payload)
    ELSE IF HasSeg(m.topic, "complete") THEN ProcessComplete(b, m.payload)
    ELSE b

SetBuf(b) ==
    /\ chunks' = b.chunks
    /\ header_info' = b.header_info
    /\ total_chunks' = b.total_chunks
    /\ total_size' = b.total_size

BoolStr(x) == IF x THEN "True" ELSE "False"

----------------------------------------------------------------------------
(* History of the request session (written by no program code) *)

NoLast == [idx |-> -1, again |-> FALSE]

(* a chunk message that _process_message hands to _process_chunk and that
   carries an index and data to store *)
AcceptedChunk(m) ==
    /\ HasInnerSeg(m.topic, "chunk") /\ ~HasSeg(m.topic, "header")
    /\ m.payload.json
    /\ m.payload.chunk_index >= 0
    /\ m.payload.data \in GoodData

Declared(d, m) ==
    IF AcceptedChunk(m) /\ m.payload.total_chunks > d THEN m.payload.total_chunks ELSE d

(* pubc: device dev1 published its complete message while the session was
        connected and before the deadline;
   term: the kinds of qualifying event ("nodata", "error", "complete")
        handed to on_message before the deadline;
   late: when no qualifying event came before the deadline, whether the
        first one came before the main thread's test that follows the wait
        loop ("late") or after it ("after");
   any: some message was handed to on_message;
   started: client.connect returned and the wait loop was entered;
   foreign: a device other than dev1 published while the session was
        connected;
   by: the kind of the event that set request_completed ("none" while it is
        not set by an event), and tested: that event came before the main
        thread's test that follows the wait loop. *)
MonInit ==
    [pubc |-> FALSE, term |-> {}, late |-> "none", any |-> FALSE, started |-> FALSE,
     foreign |-> FALSE, by |-> "none", tested |-> FALSE]

----------------------------------------------------------------------------
(* process_mqtt_log followed by main: the messages of a log file are handed
   to _process_message one by one, then _validate_chunks decides, and main
   saves on success. *)

Devices == {"dev1", "dev2"}

ChunkPayloads ==
    {JsonChunk(i, t, d) : i \in -1..(MaxChunks - 1), t \in 0..MaxChunks, d \in AllData}

LogMsgs ==
    {Msg(ChunkTopic("dev1", 0), p) : p \in ChunkPayloads \union {Garbage}}
    \union {Msg(HeaderTopic("dev1"), p) : p \in {JsonHeader("h1"), Garbage}}
    \union {Msg(CompleteTopic("dev1"), p) : p \in {JsonComplete(s) : s \in 0..MaxSize} \union {Garbage}}
    \union {Msg(StatusTopic("dev1"), Text(<<"Core", "dump", "sent">>))}

(* an MQTTOTAUpdater as __init__ leaves it *)
InitUpdater ==
    /\ connected = FALSE
    /\ discovered_devices = {}
    /\ selected_device = "None"
    /\ ota_start_time = <<>>
    /\ ota_progress_data = <<>>
    /\ firmware_size = 0
    /\ status_updates = <<>>
    /\ device_list = <<>>
    /\ sighted = <<>>
    /\ sent_at = -1

(* the runs of the core-dump tools use no MQTTOTAUpdater *)
InitNoUpdater == InitUpdater /\ auto_mode = FALSE

InitObject ==
    /\ chunks = NoChunks
    /\ header_info = "None"
    /\ total_chunks = 0
    /\ total_size = 0
    /\ request_completed = FALSE
    /\ request_timeout = FALSE
    /\ retval = "none"
    /\ outfile = NoFile

InitNoSession ==
    /\ impl = "analyzer"
    /\ device_id = "None"
    /\ loop_running = FALSE
    /\ conn = "none"
    /\ subs = {}
    /\ cmd_count = 0
    /\ now = 0
    /\ start_time = 0
    /\ wake = 0
    /\ mon = MonInit

InitLog ==
    /\ InitObject
    /\ InitNoUpdater
    /\ InitNoSession
    /\ pc = "log"
    /\ any_msg = FALSE
    /\ src = NoChunks
    /\ got = {}
    /\ last = NoLast
    /\ decl = 0

(* one message of the log file: kept when '/coredump' is in its topic *)
LogMessage(m) ==
    /\ UNCHANGED otavars
    /\ pc = "log"
    /\ IF HasSeg(m.topic, "coredump")
       THEN /\ any_msg' = TRUE
            /\ SetBuf(ProcessMessage(CurBuf, m))
            /\ decl' = Declared(decl, m)
       ELSE UNCHANGED <<any_msg, bufvars, decl>>
    /\ UNCHANGED <<pc, retval, outfile, sessvars, src, got, last>>

(* end of the log: False without coredump messages, else _validate_chunks *)
LogReturn ==
    /\ UNCHANGED otavars
    /\ pc = "log"
    /\ retval' = IF ~any_msg THEN "False" ELSE BoolStr(ValidateChunks(CurBuf))
    /\ pc' = "returned"
    /\ UNCHANGED <<any_msg, bufvars, outfile, sessvars, src, got, decl>>
    /\ last' = NoLast

(* main: `if success: analyzer.save_coredump(args.output)` *)
MainSave ==
    /\ UNCHANGED otavars
    /\ pc = "returned"
    /\ outfile' = IF retval = "True" THEN SaveCoredump(CurBuf) ELSE outfile
    /\ pc' = "done"
    /\ UNCHANGED <<any_msg, bufvars, retval, sessvars, xfervars>>

NextLog ==
    \/ \E m \in LogMsgs : LogMessage(m)
    \/ LogReturn
    \/ MainSave

SpecLog == InitLog /\ [][NextLog]_vars

----------------------------------------------------------------------------
(* The same path over the log of one transfer: a device publishes chunks
   0..N-1 (src), and the at-least-once transport records them in any order,
   some of them more than once, some of them never. *)

Transfers ==
    UNION {[0..(n - 1) -> {JsonChunk(0, t, d) : t \in 1..MaxChunks, d \in GoodData}]
           : n \in 1..MaxChunks}

InitXfer ==
    /\ InitObject
    /\ InitNoUpdater
    /\ InitNoSession
    /\ pc = "log"
    /\ any_msg = FALSE
    /\ \E f \in Transfers : src = [i \in DOMAIN f |-> [f[i] EXCEPT !.chunk_index = i]]
    /\ got = {}
    /\ last = NoLast
    /\ decl = 0

XferMessage(i) ==
    /\ UNCHANGED otavars
    /\ pc = "log"
    /\ i \in DOMAIN src
    /\ any_msg' = TRUE
    /\ SetBuf(ProcessMessage(CurBuf, Msg(ChunkTopic("dev1", i), src[i])))
    /\ got' = got \union {i}
    /\ last' = [idx |-> i, again |-> i \in got]
    /\ decl' = Declared(decl, Msg(ChunkTopic("dev1", i), src[i]))
    /\ UNCHANGED <<pc, retval, outfile, sessvars, src>>

NextXfer ==
    \/ \E i \in 0..(MaxChunks - 1) : XferMessage(i)
    \/ LogReturn
    \/ MainSave

SpecXfer == InitXfer /\ [][NextXfer]_vars

----------------------------------------------------------------------------
(* The request session: request_coredump_via_mqtt (analyzer) and
   request_coredump (requester).  The network thread of the client runs
   on_connect and on_message; the main thread polls request_completed and
   the clock once per second. *)

(* MQTT topic filter matching, with every '+' also matching any device:
   the device segment of the filter is not compared *)
Matches_AnyDevice(f, topic) ==
    /\ Len(f) = Len(topic)
    /\ \A i \in 1..Len(f) : f[i] = "+" \/ f[i] = topic[i] \/ i = 2

(* MQTT topic filter matching: '+' matches exactly one segment *)
Matches(f, topic) ==
    /\ Len(f) = Len(topic)
    /\ \A i \in 1..Len(f) : f[i] = "+" \/ f[i] = topic[i]

(* the three client.subscribe calls of on_connect *)
Subscriptions(im, dev) ==
    LET d == IF dev = "None" THEN "+" ELSE dev
        pattern == IF im = "requester" /\ dev # "None"
                   THEN <<BASE_TOPIC, d, "coredump", "chunk", "+">>
                   ELSE <<BASE_TOPIC, d, "coredump", "+">>
    IN  {pattern, <<BASE_TOPIC, d, "status">>, <<BASE_TOPIC, d, "error">>}

(* str.lower() on the words of the model *)
Lower(w) ==
    CASE w = "Core" -> "core"
      [] w = "No" -> "no"
      [] w = "OTA" -> "ota"
      [] w = "Starting" -> "starting"
      [] OTHER -> w

LowerText(t) == [i \in DOMAIN t |-> Lower(t[i])]

(* `phrase in text`, on sequences of words *)
Contains(t, phrase) ==
    \E i \in 0..(Len(t) - Len(phrase)) : SubSeq(t, i + 1, i + Len(phrase)) = phrase

NoDataPhrase == <<"No", "core", "dump", "data", "available">>
ErrorKeyword == <<"core", "dump">>

Session(b, done) == [buf |-> b, completed |-> done]

CurSession == Session(CurBuf, request_completed)

(* the "coredump" branch of CoreDumpAnalyzer...on_message: _process_message,
   then request_completed when '/complete' is in the topic *)
AnalyzerCoredump(s, m) ==
    Session(ProcessMessage(s.buf, m), s.completed \/ HasSeg(m.topic, "complete"))

(* the "coredump" branch of CoreDumpRequester...on_message: json.loads raises
   on a payload that is no JSON, and the handler's except swallows it *)
RequesterCoredump(s, m) ==
    IF HasSeg(m.topic, "header")
    THEN IF m.payload.json THEN Session(ProcessHeader(s.buf, m.payload), s.completed) ELSE s
    ELSE IF HasInnerSeg(m.topic, "chunk")
    THEN IF m.payload.json THEN Session(ProcessChunk(s.buf, m.payload), s.completed) ELSE s
    ELSE IF HasSeg(m.topic, "complete")
    THEN IF m.payload.json THEN Session(ProcessComplete(s.buf, m.payload), TRUE) ELSE s
    ELSE s

(* on_message without the test for the no-data phrase *)
OnMessage_NoStatus(im, s, m) ==
    IF Len(m.topic) >= 3
    THEN CASE m.topic[3] = "error" ->
                IF Contains(LowerText(m.payload.text), ErrorKeyword)
                THEN Session(s.buf, TRUE) ELSE s
           [] m.topic[3] = "coredump" ->
                IF im = "analyzer" THEN AnalyzerCoredump(s, m) ELSE RequesterCoredump(s, m)
           [] OTHER -> s
    ELSE s

(* on_message of the request session *)
OnMessage(im, s, m) ==
    IF Len(m.topic) >= 3
    THEN CASE m.topic[3] = "status" ->
                IF Contains(m.payload.text, NoDataPhrase) THEN Session(s.buf, TRUE) ELSE s
           [] m.topic[3] = "error" ->
                IF Contains(LowerText(m.payload.text), ErrorKeyword)
                THEN Session(s.buf, TRUE) ELSE s
           [] m.topic[3] = "coredump" ->
                IF im = "analyzer" THEN AnalyzerCoredump(s, m) ELSE RequesterCoredump(s, m)
           [] OTHER -> s
    ELSE s

(* the broker hands a published message to on_message when the network
   thread runs, the client is connected and a subscription matches *)
Routed(m) == loop_running /\ conn = "up" /\ \E f \in subs : Matches(f, m.topic)

(* the session state after message m has been published *)
Delivery(m) == IF Routed(m) THEN OnMessage(impl, CurSession, m) ELSE CurSession

(* What the devices publish during a session.  dev1 holds a transfer src of
   N chunks, each declaring total N; any device may also publish a header,
   a complete message, status and error texts, and payloads that are no
   JSON. *)
SessionTransfers ==
    {[i \in 0..(n - 1) |-> JsonChunk(i, n, IF i % 2 = 0 THEN "QUI=" ELSE "Q0Q=")]
     : n \in 1..MaxChunks}

OtherMsgs(d) ==
    {Msg(HeaderTopic(d), JsonHeader("h1")),
     Msg(ChunkTopic(d, 0), Garbage),
     Msg(CompleteTopic(d), JsonComplete(MaxSize)),
     Msg(CompleteTopic(d), Garbage),
     Msg(StatusTopic(d), Text(NoDataPhrase)),
     Msg(StatusTopic(d), Text(<<"Starting", "transmission">>)),
     Msg(ErrorTopic(d), Text(<<"Core", "dump", "failed">>)),
     Msg(ErrorTopic(d), Text(<<"OTA", "failed">>))}

SrcMsg(i) == Msg(ChunkTopic("dev1", i), src[i])

ForeignMsgs(d) == OtherMsgs(d) \union {Msg(ChunkTopic(d, i), src[i]) : i \in DOMAIN src}

IsNoData(m) ==
    /\ Len(m.topic) >= 3 /\ m.topic[3] = "status"
    /\ Contains(m.payload.text, NoDataPhrase)

IsMatchingError(m) ==
    /\ Len(m.topic) >= 3 /\ m.topic[3] = "error"
    /\ Contains(LowerText(m.payload.text), ErrorKeyword)

IsComplete(m) ==
    /\ Len(m.topic) >= 3 /\ m.topic[3] = "coredump"
    /\ m.topic[Len(m.topic)] = "complete"

Kind(m) ==
    IF IsNoData(m) THEN "nodata"
    ELSE IF IsMatchingError(m) THEN "error"
    ELSE IF IsComplete(m) THEN "complete"
    ELSE "other"

InitSession ==
    /\ InitObject
    /\ InitNoUpdater
    /\ impl \in {"analyzer", "requester"}
    /\ device_id \in {"dev1", "None"}
    /\ pc = "idle"
    /\ loop_running = FALSE
    /\ conn = "none"
    /\ subs = {}
    /\ cmd_count = 0
    /\ now = 0
    /\ start_time = 0
    /\ wake = 0
    /\ mon = MonInit
    /\ any_msg = FALSE
    /\ src \in SessionTransfers
    /\ got = {}
    /\ last = NoLast
    /\ decl = 0

BeforeDeadline == now - start_time < Timeout

Waiting == pc \in {"wait", "sleep", "check", "stop"}

(* the flags are reset (analyzer only), client.connect succeeds, loop_start,
   start_time = time.time() *)
Start ==
    /\ UNCHANGED otavars
    /\ pc = "idle"
    /\ request_completed' = (IF impl = "analyzer" THEN FALSE ELSE request_completed)
    /\ request_timeout' = (IF impl = "analyzer" THEN FALSE ELSE request_timeout)
    /\ loop_running' = TRUE
    /\ start_time' = now
    /\ pc' = "wait"
    /\ mon' = [mon EXCEPT !.started = TRUE]
    /\ UNCHANGED <<impl, device_id, bufvars, conn, subs, cmd_count, now, wake,
                   retval, outfile, any_msg, xfervars>>

(* client.connect raises: `except Exception: return False` *)
StartFail ==
    /\ UNCHANGED otavars
    /\ pc = "idle"
    /\ request_completed' = (IF impl = "analyzer" THEN FALSE ELSE request_completed)
    /\ request_timeout' = (IF impl = "analyzer" THEN FALSE ELSE request_timeout)
    /\ retval' = "False"
    /\ pc' = "returned"
    /\ UNCHANGED <<impl, device_id, bufvars, loop_running, conn, subs, cmd_count, now,
                   start_time, wake, outfile, any_msg, xfervars, mon>>

(* on_connect(rc): with rc = 0 subscribe and publish the command, otherwise
   only report; a refused connection is tried again by the network thread *)
OnConnect(rc) ==
    /\ UNCHANGED otavars
    /\ loop_running
    /\ conn # "up"
    /\ IF rc = 0
       THEN /\ conn' = "up"
            /\ subs' = subs \union Subscriptions(impl, device_id)
            /\ cmd_count' = cmd_count + 1
       ELSE /\ conn' = "refused"
            /\ UNCHANGED <<subs, cmd_count>>
    /\ UNCHANGED <<impl, device_id, bufvars, request_completed, request_timeout, pc,
                   loop_running, now, start_time, wake, retval, outfile, any_msg,
                   xfervars, mon>>

MonPublish(m) ==
    LET k == Kind(m)
    IN  [mon EXCEPT
           !.foreign = @ \/ (conn = "up" /\ loop_running /\ m.topic[2] # "dev1"),
           !.pubc = @ \/ (conn = "up" /\ BeforeDeadline /\ m = Msg(CompleteTopic("dev1"),
                                                               JsonComplete(MaxSize))),
           !.term = IF Routed(m) /\ BeforeDeadline /\ k # "other" THEN @ \union {k} ELSE @,
           !.late = IF Routed(m) /\ ~BeforeDeadline /\ k # "other" /\ @ = "none"
                       /\ mon.term = {}
                    THEN (IF pc \in {"wait", "sleep", "check"} THEN "late" ELSE "after")
                    ELSE @,
           !.any = @ \/ Routed(m),
           !.by = IF ~request_completed /\ Delivery(m).completed THEN k ELSE @,
           !.tested = IF ~request_completed /\ Delivery(m).completed
                      THEN pc \in {"wait", "sleep", "check"} ELSE @]

(* a device publishes m *)
Publish(m) ==
    /\ UNCHANGED otavars
    /\ Waiting
    /\ mon' = MonPublish(m)
    /\ SetBuf(Delivery(m).buf)
    /\ request_completed' = Delivery(m).completed
    /\ decl' = IF Routed(m) THEN Declared(decl, m) ELSE decl
    /\ UNCHANGED <<impl, device_id, request_timeout, pc, loop_running, conn, subs,
                   cmd_count, now, start_time, wake, retval, outfile, any_msg, src, last>>

(* dev1 publishes chunk i of its transfer *)
PublishChunk(i) ==
    /\ i \in DOMAIN src
    /\ Publish(SrcMsg(i))
    /\ got' = IF conn = "up" /\ BeforeDeadline THEN got \union {i} ELSE got

(* a device publishes anything else *)
PublishOther(d, m) ==
    /\ Publish(m)
    /\ got' = got

(* time passes *)
Tick ==
    /\ UNCHANGED otavars
    /\ Waiting
    /\ now < start_time + Timeout + 1
    /\ now' = now + 1
    /\ UNCHANGED <<impl, device_id, bufvars, request_completed, request_timeout, pc,
                   loop_running, conn, subs, cmd_count, start_time, wake, retval, outfile,
                   any_msg, xfervars, mon>>

MainStep(to) ==
    /\ UNCHANGED otavars
    /\ pc' = to
    /\ UNCHANGED <<impl, device_id, bufvars, request_completed, loop_running, conn, subs,
                   cmd_count, now, start_time, retval, outfile, any_msg, xfervars, mon>>

(* the wait loop, testing request_completed only *)
WaitTest_NoDeadline ==
    /\ pc = "wait"
    /\ IF ~request_completed
       THEN MainStep("sleep") /\ wake' = now + PollInterval
       ELSE MainStep("check") /\ wake' = wake
    /\ UNCHANGED request_timeout

(* `while not self.request_completed and (time.time() - start_time) < timeout:`
   and the call of time.sleep(1) *)
WaitTest ==
    /\ pc = "wait"
    /\ IF ~request_completed /\ now - start_time < Timeout
       THEN MainStep("sleep") /\ wake' = now + PollInterval
       ELSE MainStep("check") /\ wake' = wake
    /\ UNCHANGED request_timeout

(* time.sleep(1) returns *)
Wake ==
    /\ pc = "sleep"
    /\ now >= wake
    /\ MainStep("wait")
    /\ wake' = 0
    /\ UNCHANGED request_timeout

(* the test after the wait loop, setting the timeout flag in any case *)
TimeoutFlag_Always(completed, timedout) == TRUE

(* the test after the wait loop, with the timeout flag left alone *)
TimeoutFlag_Never(completed, timedout) == timedout

(* `if not self.request_completed: self.request_timeout = True` *)
TimeoutFlag(completed, timedout) == IF ~completed THEN TRUE ELSE timedout

Check ==
    /\ pc = "check"
    /\ MainStep("stop")
    /\ request_timeout' = TimeoutFlag(request_completed, request_timeout)
    /\ UNCHANGED wake

(* the return statement without its test of request_timeout *)
ReturnValue_IgnoresTimeout(b, timedout) == ValidateChunks(b)

(* `return self._validate_chunks() if not self.request_timeout else False` *)
ReturnValue(b, timedout) == IF ~timedout THEN ValidateChunks(b) ELSE FALSE

(* What the return statement prints about the chunks: the number received,
   the number declared and the list of missing indices, each as the set of
   the values a printed line states (empty: not stated). *)
NoReport == [received |-> {}, declared |-> {}, missing |-> {}]

(* the lines of _validate_chunks: "No chunks received", "Missing chunks:
   [...]" or "All N chunks received successfully" *)
ValidateReport(b) ==
    IF b.total_chunks = 0 THEN [NoReport EXCEPT !.received = {0}]
    ELSE IF MissingChunks(b) # <<>> THEN [NoReport EXCEPT !.missing = {MissingChunks(b)}]
    ELSE [received |-> {b.total_chunks}, declared |-> {b.total_chunks}, missing |-> {<<>>}]

(* `return self._validate_chunks() if not self.request_timeout else False`:
   after a timeout _validate_chunks is not called *)
ReturnReport(b, timedout) == IF ~timedout THEN ValidateReport(b) ELSE NoReport

(* client.loop_stop(); client.disconnect(); return ... *)
StopAndReturn ==
    /\ UNCHANGED otavars
    /\ pc = "stop"
    /\ loop_running' = FALSE
    /\ conn' = "none"
    /\ subs' = {}
    /\ retval' = BoolStr(ReturnValue(CurBuf, request_timeout))
    /\ pc' = "returned"
    /\ UNCHANGED <<impl, device_id, bufvars, request_completed, request_timeout,
                   cmd_count, now, start_time, wake, outfile, any_msg, xfervars, mon>>

NextSession ==
    \/ Start
    \/ StartFail
    \/ \E rc \in {0, 5} : OnConnect(rc)
    \/ \E i \in 0..(MaxChunks - 1) : PublishChunk(i)
    \/ \E m \in OtherMsgs("dev1") : PublishOther("dev1", m)
    \/ \E m \in ForeignMsgs("dev2") : PublishOther("dev2", m)
    \/ Tick
    \/ WaitTest
    \/ Wake
    \/ Check
    \/ StopAndReturn
    \/ MainSave

Spec == InitSession /\ [][NextSession]_vars

(* a session whose device holds a transfer of one chunk *)
InitOneChunk == InitSession /\ DOMAIN src = {0}

(* The session with a main thread that is scheduled again and again and a
   clock that advances: every step of the main thread that stays possible
   is taken, and time passes.  The device holds a transfer of one chunk. *)
SpecFair ==
    /\ InitOneChunk
    /\ [][NextSession]_vars
    /\ WF_vars(Tick)
    /\ WF_vars(WaitTest)
    /\ WF_vars(Wake)
    /\ WF_vars(Check)
    /\ WF_vars(StopAndReturn)

----------------------------------------------------------------------------
(* The request operation invoked again on the object of an earlier request *)

MaxClock == 2       \* no further request starts once the clock has reached MaxClock
MaxCommands == 2    \* nor once MaxCommands commands have been published

(* a later call of request_coredump_via_mqtt / request_coredump on the same
   object: the analyzer resets its two flags, the requester resets nothing;
   neither touches chunks, header_info, total_chunks or total_size; a new
   client is built, client.connect succeeds, loop_start, start_time =
   time.time() *)
CallAgain ==
    /\ UNCHANGED otavars
    /\ pc \in {"returned", "done"}
    /\ now < MaxClock
    /\ cmd_count < MaxCommands
    /\ request_completed' = (IF impl = "analyzer" THEN FALSE ELSE request_completed)
    /\ request_timeout' = (IF impl = "analyzer" THEN FALSE ELSE request_timeout)
    /\ loop_running' = TRUE
    /\ start_time' = now
    /\ retval' = "none"
    /\ pc' = "wait"
    /\ UNCHANGED <<impl, device_id, bufvars, conn, subs, cmd_count, now, wake,
                   outfile, any_msg, xfervars, mon>>

NextAgain ==
    \/ NextSession
    \/ CallAgain

(* requests for the core dump of dev1, which holds a transfer of one chunk *)
InitAgain == InitOneChunk /\ device_id = "dev1"

SpecAgain == InitAgain /\ [][NextAgain]_vars

----------------------------------------------------------------------------
(* The request session over a connection that drops *)

(* the connection to the broker is lost while the network thread runs: the
   session of the client (mqtt.Client() asks for a clean session) and its
   subscriptions end at the broker; the network thread connects again and
   the broker's answer runs on_connect once more *)
Disconnect ==
    /\ UNCHANGED otavars
    /\ loop_running
    /\ conn = "up"
    /\ cmd_count < MaxCommands
    /\ conn' = "down"
    /\ subs' = {}
    /\ UNCHANGED <<impl, device_id, bufvars, request_completed, request_timeout, pc,
                   loop_running, cmd_count, now, start_time, wake, retval, outfile,
                   any_msg, xfervars, mon>>

NextReconnect ==
    \/ NextSession
    \/ Disconnect

SpecReconnect == InitAgain /\ [][NextReconnect]_vars

----------------------------------------------------------------------------
(* process_live_mqtt followed by main: the client subscribes, the main
   thread sleeps for the listening window while the network thread hands
   every received message to _process_message, then _validate_chunks
   decides. *)

(* the filter of process_live_mqtt's on_connect *)
LiveSubscription == <<BASE_TOPIC, "coredump", "+">>

(* what is published during the window beside the chunks of dev1: header
   and complete messages of dev1, and messages on topics without a device
   segment *)
LiveMsgs ==
    {Msg(HeaderTopic("dev1"), JsonHeader("h1")),
     Msg(CompleteTopic("dev1"), JsonComplete(MaxSize)),
     Msg(<<BASE_TOPIC, "coredump", "header">>, JsonHeader("h2")),
     Msg(<<BASE_TOPIC, "coredump", "complete">>, JsonComplete(MaxSize)),
     Msg(<<BASE_TOPIC, "coredump", "complete">>, Garbage)}

InitLive ==
    /\ InitObject
    /\ InitNoUpdater
    /\ InitNoSession
    /\ pc = "live_idle"
    /\ any_msg = FALSE
    /\ src \in SessionTransfers
    /\ got = {}
    /\ last = NoLast
    /\ decl = 0

(* client.connect succeeds, loop_start, time.sleep(timeout) begins *)
LiveStart ==
    /\ UNCHANGED otavars
    /\ pc = "live_idle"
    /\ loop_running' = TRUE
    /\ start_time' = now
    /\ wake' = now + Timeout
    /\ pc' = "live_sleep"
    /\ UNCHANGED <<impl, device_id, bufvars, request_completed, request_timeout, conn,
                   subs, cmd_count, now, retval, outfile, any_msg, xfervars, mon>>

(* client.connect raises: `except Exception: return False` *)
LiveStartFail ==
    /\ UNCHANGED otavars
    /\ pc = "live_idle"
    /\ retval' = "False"
    /\ pc' = "returned"
    /\ UNCHANGED <<impl, device_id, bufvars, request_completed, request_timeout,
                   loop_running, conn, subs, cmd_count, now, start_time, wake, outfile,
                   any_msg, xfervars, mon>>

(* on_connect(rc) of process_live_mqtt: with rc = 0 subscribe, otherwise
   only report *)
LiveOnConnect(rc) ==
    /\ UNCHANGED otavars
    /\ loop_running
    /\ conn # "up"
    /\ IF rc = 0
       THEN conn' = "up" /\ subs' = subs \union {LiveSubscription}
       ELSE conn' = "refused" /\ subs' = subs
    /\ UNCHANGED <<impl, device_id, bufvars, request_completed, request_timeout, pc,
                   loop_running, cmd_count, now, start_time, wake, retval, outfile,
                   any_msg, xfervars, mon>>

(* a device publishes m during the window; on_message of process_live_mqtt
   hands what the broker routes to _process_message *)
LivePublish(m) ==
    /\ UNCHANGED otavars
    /\ pc = "live_sleep"
    /\ SetBuf(IF Routed(m) THEN ProcessMessage(CurBuf, m) ELSE CurBuf)
    /\ decl' = IF Routed(m) THEN Declared(decl, m) ELSE decl
    /\ UNCHANGED <<impl, device_id, request_completed, request_timeout, pc, loop_running,
                   conn, subs, cmd_count, now, start_time, wake, retval, outfile, any_msg,
                   src, last, mon>>

(* dev1 publishes chunk i of its transfer *)
LivePublishChunk(i) ==
    /\ i \in DOMAIN src
    /\ LivePublish(SrcMsg(i))
    /\ got' = IF conn = "up" THEN got \union {i} ELSE got

LivePublishOther(m) ==
    /\ LivePublish(m)
    /\ got' = got

(* time passes during time.sleep(timeout) *)
LiveTick ==
    /\ UNCHANGED otavars
    /\ pc = "live_sleep"
    /\ now < wake
    /\ now' = now + 1
    /\ UNCHANGED <<impl, device_id, bufvars, request_completed, request_timeout, pc,
                   loop_running, conn, subs, cmd_count, start_time, wake, retval, outfile,
                   any_msg, xfervars, mon>>

(* time.sleep(timeout) returns; client.loop_stop(); client.disconnect();
   `return self._validate_chunks()` *)
LiveReturn ==
    /\ UNCHANGED otavars
    /\ pc = "live_sleep"
    /\ now >= wake
    /\ loop_running' = FALSE
    /\ conn' = "none"
    /\ subs' = {}
    /\ retval' = BoolStr(ValidateChunks(CurBuf))
    /\ pc' = "returned"
    /\ UNCHANGED <<impl, device_id, bufvars, request_completed, request_timeout,
                   cmd_count, now, start_time, wake, outfile, any_msg, xfervars, mon>>

NextLive ==
    \/ LiveStart
    \/ LiveStartFail
    \/ \E rc \in {0, 5} : LiveOnConnect(rc)
    \/ \E i \in 0..(MaxChunks - 1) : LivePublishChunk(i)
    \/ \E m \in LiveMsgs : LivePublishOther(m)
    \/ LiveTick
    \/ LiveReturn
    \/ MainSave

SpecLive == InitLive /\ [][NextLive]_vars

----------------------------------------------------------------------------
(* mqtt_ota_update.py: MQTTOTAUpdater and main.  The network thread of the
   client runs on_connect, on_disconnect and on_message; the main thread
   connects, discovers devices (or takes --device), selects one, sends the
   OTA command and watches status_updates. *)

MaxUpdates == 3     \* on_message runs at most MaxUpdates times in a run
DiscoveryTimeout == 2   \* discover_devices(timeout), in polls of the discovery loop
FirmwareSize == 200     \* os.path.getsize(firmware_path)

DiscoveryPoll == 1  \* time.sleep(0.1) of the discovery loop, as one unit of time

MeasurementTopic(d) == <<BASE_TOPIC, d, "measurement">>
LogsTopic(d) == <<BASE_TOPIC, d, "logs">>

(* sorted(list(discovered_devices)): string order of the device ids *)
DeviceRank(d) == CASE d = "dev1" -> 1 [] d = "dev2" -> 2 [] OTHER -> 3

RECURSIVE Sorted(_)
Sorted(S) ==
    IF S = {} THEN <<>>
    ELSE LET least == CHOOSE d \in S : \A e \in S : DeviceRank(d) <= DeviceRank(e)
         IN  <<least>> \o Sorted(S \ {least})

(* Status texts, as sequences of words; the percentage of a progress line
   is a word of its own *)
ProgressMarker == <<"OTA", "Progress:">>
ProgressText(p) == <<"OTA", "Progress:", p, "%", "(x/y)">>
StartingText == <<"Starting", "OTA", "update">>
StartedText == <<"OTA", "started">>
CompletedText == <<"OTA", "completed">>
RestartText == <<"Device", "restarting">>

(* float(percent_str): the number, or nothing when float raises *)
FloatOf(w) ==
    CASE w = "0" -> <<0>>
      [] w = "50" -> <<50>>
      [] w = "100" -> <<100>>
      [] OTHER -> <<>>

(* position of the first occurrence of a phrase (0: none) *)
Find(t, phrase) ==
    IF Contains(t, phrase)
    THEN 1 + CHOOSE i \in 0..(Len(t) - Len(phrase)) :
                 /\ SubSeq(t, i + 1, i + Len(phrase)) = phrase
                 /\ \A j \in 0..(i - 1) : SubSeq(t, j + 1, j + Len(phrase)) # phrase
    ELSE 0

(* payload.split("OTA Progress:")[1].strip().split("%")[0].strip(), then
   float: the words between the marker and the first '%' after it must be
   one number *)
ParsePercent(t) ==
    LET rest == SubSeq(t, Find(t, ProgressMarker) + Len(ProgressMarker), Len(t))
        k == Find(rest, <<"%">>)
        words == IF k = 0 THEN rest ELSE SubSeq(rest, 1, k - 1)
    IN  IF Len(words) = 1 THEN FloatOf(words[1]) ELSE <<>>

(* a quotient of two numbers, kept as numerator and denominator *)
Frac(n, d) == [num |-> n, den |-> d]

Updater(dd, sd, st, pd, fs, su) ==
    [discovered_devices |-> dd, selected_device |-> sd, ota_start_time |-> st,
     ota_progress_data |-> pd, firmware_size |-> fs, status_updates |-> su]

CurUpdater ==
    Updater(discovered_devices, selected_device, ota_start_time, ota_progress_data,
            firmware_size, status_updates)

(* the progress branch of on_message, forgetting the messages seen so far
   whenever a sample can be recorded *)
TrackProgress_ForgetsUpdates(u, text, t) ==
    IF Contains(text, ProgressMarker) /\ u.ota_start_time # <<>>
    THEN [u EXCEPT !.status_updates = <<>>]
    ELSE u

(* the progress branch of on_message: a sample (time, percentage,
   downloaded_bytes, speed_bps) is appended when the text holds the marker
   and a '%', ota_start_time is set and the percentage parses *)
TrackProgress(u, text, t) ==
    IF Contains(text, ProgressMarker) /\ u.ota_start_time # <<>>
          /\ Contains(text, <<"%">>) /\ ParsePercent(text) # <<>>
    THEN LET percentage == ParsePercent(text)[1]
             elapsed_time == t - u.ota_start_time[1]
             downloaded_bytes == Frac(percentage * u.firmware_size, 100)
             speed_bps == IF elapsed_time > 0
                          THEN Frac(percentage * u.firmware_size, 100 * elapsed_time)
                          ELSE Frac(0, 1)
         IN  [u EXCEPT !.ota_progress_data =
                          Append(@, [time |-> t, percentage |-> percentage,
                                     downloaded_bytes |-> downloaded_bytes,
                                     speed_bps |-> speed_bps])]
    ELSE u

(* _show_ota_completion_stats *)
ShowOtaCompletionStats(u) ==
    IF u.ota_start_time = <<>> \/ u.ota_progress_data = <<>> THEN u
    ELSE [u EXCEPT !.ota_start_time = <<>>, !.ota_progress_data = <<>>]

(* the second status branch of on_message (lines 170-181) *)
TrackStart(u, text, t) ==
    IF Contains(text, <<"OTA">>)
    THEN IF Contains(text, <<"Starting", "OTA">>) \/ Contains(text, StartedText)
         THEN [u EXCEPT !.ota_start_time = <<t>>, !.ota_progress_data = <<>>]
         ELSE IF Contains(text, CompletedText) THEN ShowOtaCompletionStats(u)
         ELSE u
    ELSE u

(* on_message: an if / elif chain over the topic; the second branch for the
   status topic of the selected device has the condition of the first, so
   it is never taken; every message is appended to status_updates *)
OtaOnMessage(u, m, t) ==
    LET seen == [u EXCEPT !.status_updates = Append(@, m)]
    IN  IF m.topic[1] = BASE_TOPIC /\ Len(m.topic) >= 2
              /\ m.topic[Len(m.topic)] = "measurement"
        THEN [seen EXCEPT !.discovered_devices = @ \union {m.topic[2]}]
        ELSE IF u.selected_device # "None" /\ m.topic = StatusTopic(u.selected_device)
        THEN TrackProgress(seen, m.payload.text, t)
        ELSE IF u.selected_device # "None" /\ m.topic = ErrorTopic(u.selected_device)
        THEN seen
        ELSE IF u.selected_device # "None" /\ m.topic = StatusTopic(u.selected_device)
        THEN TrackStart(seen, m.payload.text, t)
        ELSE seen

SetUpdater(u) ==
    /\ discovered_devices' = u.discovered_devices
    /\ selected_device' = u.selected_device
    /\ ota_start_time' = u.ota_start_time
    /\ ota_progress_data' = u.ota_progress_data
    /\ firmware_size' = u.firmware_size
    /\ status_updates' = u.status_updates

(* the subscriptions for the selected device *)
DeviceSubscriptions(d) == {StatusTopic(d), ErrorTopic(d), LogsTopic(d)}

(* what the devices publish during a run of the tool *)
OtaMsgs ==
    {Msg(MeasurementTopic(d), Text(<<"50.01">>)) : d \in Devices}
    \union {Msg(StatusTopic("dev1"), Text(t)) :
                t \in {ProgressText("50"), ProgressText("abc"), StartingText, RestartText}}
    \union {Msg(ErrorTopic("dev1"), Text(<<"OTA", "failed">>))}

(* main starts: an MQTTOTAUpdater is built; device_id is args.device *)
InitOta ==
    /\ InitObject
    /\ InitUpdater
    /\ auto_mode \in BOOLEAN
    /\ impl = "updater"
    /\ device_id \in {"None", "dev1"}
    /\ pc = "ota_idle"
    /\ loop_running = FALSE
    /\ conn = "none"
    /\ subs = {}
    /\ cmd_count = 0
    /\ now = 0
    /\ start_time = 0
    /\ wake = 0
    /\ mon = MonInit
    /\ any_msg = FALSE
    /\ src = NoChunks
    /\ got = {}
    /\ last = NoLast
    /\ decl = 0

OtaRunning == pc \notin {"ota_idle", "ota_exit"}

WindowOpen == pc \in {"disc_loop", "disc_sleep", "disc_build"}

(* connect(): loop_start, on_connect(rc = 0) sets connected and subscribes
   to the measurement topics; connect returns True *)
OtaConnect ==
    /\ pc = "ota_idle"
    /\ connected' = TRUE
    /\ subs' = {MeasurementTopic("+")}
    /\ pc' = "ota_connected"
    /\ UNCHANGED <<corevars, now, start_time, wake, discovered_devices, selected_device,
                   ota_start_time, ota_progress_data, firmware_size, status_updates,
                   auto_mode, device_list, sighted, sent_at>>

(* connect() raises or is not answered in 10 s: main exits *)
OtaConnectFail ==
    /\ pc = "ota_idle"
    /\ pc' = "ota_exit"
    /\ UNCHANGED <<corevars, now, start_time, wake, subs, otavars>>

(* on_disconnect *)
OtaOnDisconnect ==
    /\ OtaRunning
    /\ connected
    /\ connected' = FALSE
    /\ subs' = {}
    /\ UNCHANGED <<corevars, pc, now, start_time, wake, discovered_devices,
                   selected_device, ota_start_time, ota_progress_data, firmware_size,
                   status_updates, auto_mode, device_list, sighted, sent_at>>

(* on_connect(rc = 0) after the client has connected again *)
OtaOnConnect ==
    /\ OtaRunning
    /\ ~connected
    /\ connected' = TRUE
    /\ subs' = {MeasurementTopic("+")}
                  \union (IF selected_device # "None"
                          THEN DeviceSubscriptions(selected_device) ELSE {})
    /\ UNCHANGED <<corevars, pc, now, start_time, wake, discovered_devices,
                   selected_device, ota_start_time, ota_progress_data, firmware_size,
                   status_updates, auto_mode, device_list, sighted, sent_at>>

(* the broker hands m to on_message, the n-th message of the run at most *)
OtaDeliverUpTo(m, n) ==
    /\ OtaRunning
    /\ connected
    /\ \E f \in subs : Matches(f, m.topic)
    /\ Len(status_updates) < n
    /\ SetUpdater(OtaOnMessage(CurUpdater, m, now))
    /\ sighted' = IF WindowOpen /\ m.topic[3] = "measurement"
                       /\ \A k \in DOMAIN sighted : sighted[k] # m.topic[2]
                  THEN Append(sighted, m.topic[2]) ELSE sighted
    /\ UNCHANGED <<corevars, pc, now, start_time, wake, subs, connected, auto_mode,
                   device_list, sent_at>>

OtaDeliver(m) == OtaDeliverUpTo(m, MaxUpdates)

(* main with --device: the device is taken as given *)
TakeDevice ==
    /\ pc = "ota_connected"
    /\ device_id # "None"
    /\ selected_device' = device_id
    /\ subs' = IF connected THEN subs \union DeviceSubscriptions(device_id) ELSE subs
    /\ pc' = "selected"
    /\ UNCHANGED <<corevars, now, start_time, wake, connected, discovered_devices,
                   ota_start_time, ota_progress_data, firmware_size, status_updates,
                   auto_mode, device_list, sighted, sent_at>>

(* discover_devices up to the loop: [] when not connected, else the
   registry is cleared and start_time taken *)
DiscoverDevices ==
    /\ pc = "ota_connected"
    /\ device_id = "None"
    /\ IF ~connected
       THEN /\ device_list' = <<>>
            /\ pc' = "disc_returned"
            /\ UNCHANGED <<discovered_devices, start_time>>
       ELSE /\ discovered_devices' = {}
            /\ start_time' = now
            /\ pc' = "disc_loop"
            /\ UNCHANGED device_list
    /\ UNCHANGED <<corevars, now, wake, subs, connected, selected_device, ota_start_time,
                   ota_progress_data, firmware_size, status_updates, auto_mode, sighted, sent_at>>

(* `while time.time() - start_time < timeout:` and the call of time.sleep(0.1) *)
DiscLoopTest ==
    /\ pc = "disc_loop"
    /\ IF now - start_time < DiscoveryTimeout
       THEN pc' = "disc_sleep" /\ wake' = now + DiscoveryPoll
       ELSE pc' = "disc_build" /\ wake' = wake
    /\ UNCHANGED <<corevars, now, start_time, subs, otavars>>

(* the early stop of the loop, not taken *)
DiscWake_NoEarlyStop ==
    /\ pc = "disc_sleep"
    /\ now >= wake
    /\ pc' = "disc_loop"
    /\ wake' = 0
    /\ UNCHANGED <<corevars, now, start_time, subs, otavars>>

(* time.sleep(0.1) returns; `if auto_mode and len(self.discovered_devices) > 0: break` *)
DiscWake ==
    /\ pc = "disc_sleep"
    /\ now >= wake
    /\ pc' = IF auto_mode /\ discovered_devices # {} THEN "disc_build" ELSE "disc_loop"
    /\ wake' = 0
    /\ UNCHANGED <<corevars, now, start_time, subs, otavars>>

(* `device_list = sorted(list(self.discovered_devices))`; return device_list *)
DiscBuild ==
    /\ pc = "disc_build"
    /\ device_list' = Sorted(discovered_devices)
    /\ pc' = "disc_returned"
    /\ UNCHANGED <<corevars, now, start_time, wake, subs, connected, discovered_devices,
                   selected_device, ota_start_time, ota_progress_data, firmware_size,
                   status_updates, auto_mode, sighted, sent_at>>

(* client.loop_stop(); client.disconnect(); the process ends *)
OtaExit ==
    /\ pc' = "ota_exit"
    /\ connected' = FALSE
    /\ subs' = {}
    /\ UNCHANGED <<corevars, now, start_time, wake, discovered_devices, ota_start_time,
                   ota_progress_data, firmware_size, status_updates, auto_mode,
                   device_list, sighted, sent_at>>

(* main: no device found *)
NoDevices ==
    /\ pc = "disc_returned"
    /\ device_list = <<>>
    /\ OtaExit
    /\ UNCHANGED selected_device

(* select_device_auto: device_list[0] *)
SelectDeviceAuto ==
    /\ pc = "disc_returned"
    /\ device_list # <<>>
    /\ auto_mode
    /\ selected_device' = device_list[1]
    /\ subs' = IF connected THEN subs \union DeviceSubscriptions(device_list[1]) ELSE subs
    /\ pc' = "selected"
    /\ UNCHANGED <<corevars, now, start_time, wake, connected, discovered_devices,
                   ota_start_time, ota_progress_data, firmware_size, status_updates,
                   auto_mode, device_list, sighted, sent_at>>

(* select_device_interactive: the user enters a number of the list, or q
   (choice 0) *)
SelectDeviceInteractive(choice) ==
    /\ pc = "disc_returned"
    /\ device_list # <<>>
    /\ ~auto_mode
    /\ choice \in 0..Len(device_list)
    /\ IF choice = 0
       THEN OtaExit /\ UNCHANGED selected_device
       ELSE /\ selected_device' = device_list[choice]
            /\ subs' = IF connected THEN subs \union DeviceSubscriptions(device_list[choice])
                       ELSE subs
            /\ pc' = "selected"
            /\ UNCHANGED <<corevars, now, start_time, wake, connected, discovered_devices,
                           ota_start_time, ota_progress_data, firmware_size,
                           status_updates, auto_mode, device_list, sighted, sent_at>>

(* send_ota_command: False when not connected (main then cleans up), else
   firmware_size is stored, the command published and main starts to watch *)
SendOtaCommand ==
    /\ pc = "selected"
    /\ IF ~connected
       THEN OtaExit /\ UNCHANGED selected_device
       ELSE /\ firmware_size' = FirmwareSize
            /\ start_time' = now
            /\ sent_at' = Len(status_updates)
            /\ pc' = "monitor"
            /\ UNCHANGED <<corevars, now, wake, subs, connected, discovered_devices,
                           selected_device, ota_start_time, ota_progress_data,
                           status_updates, auto_mode, device_list, sighted>>

(* "restart" in payload.lower() for one of status_updates[-5:] *)
RestartIn(su) ==
    \E k \in DOMAIN su :
        /\ k > Len(su) - 5
        /\ \E j \in DOMAIN su[k].payload.text :
               su[k].payload.text[j] \in {"restart", "restarting", "Restarting"}

RestartSeen == RestartIn(status_updates)

(* the monitor loop ends: a restart message was seen at a poll *)
MonitorDone ==
    /\ pc = "monitor"
    /\ RestartSeen
    /\ OtaExit
    /\ UNCHANGED selected_device

(* the monitor loop ends: its 300 s have passed (the clock of this loop is
   not counted) *)
MonitorTimeout ==
    /\ pc = "monitor"
    /\ ~RestartSeen
    /\ OtaExit
    /\ UNCHANGED selected_device

(* time passes *)
OtaTick ==
    /\ pc \in {"disc_loop", "disc_sleep", "monitor"}
    /\ now < start_time + DiscoveryTimeout + 1
    /\ now' = now + 1
    /\ UNCHANGED <<corevars, pc, start_time, wake, subs, otavars>>

NextOta ==
    \/ OtaConnect
    \/ OtaConnectFail
    \/ OtaOnDisconnect
    \/ OtaOnConnect
    \/ \E m \in OtaMsgs : OtaDeliver(m)
    \/ TakeDevice
    \/ DiscoverDevices
    \/ DiscLoopTest
    \/ DiscWake
    \/ DiscBuild
    \/ NoDevices
    \/ SelectDeviceAuto
    \/ \E choice \in 0..Cardinality(Devices) : SelectDeviceInteractive(choice)
    \/ SendOtaCommand
    \/ MonitorDone
    \/ MonitorTimeout
    \/ OtaTick

SpecOta == InitOta /\ [][NextOta]_vars

(* A run of main with --device dev1 in which up to MaxBurst messages reach
   on_message: restart notices of dev1 on its status and on its error
   topic, and telemetry of dev2. *)

MaxBurst == 6       \* on_message runs at most MaxBurst times in such a run

MonitorMsgs ==
    {Msg(StatusTopic("dev1"), Text(RestartText)),
     Msg(ErrorTopic("dev1"), Text(<<"Update", "failed", "restarting">>)),
     Msg(MeasurementTopic("dev2"), Text(<<"50.01">>))}

InitMonitor == InitOta /\ device_id = "dev1" /\ auto_mode

NextMonitor ==
    \/ OtaConnect
    \/ OtaOnDisconnect
    \/ OtaOnConnect
    \/ \E m \in MonitorMsgs : OtaDeliverUpTo(m, MaxBurst)
    \/ TakeDevice
    \/ SendOtaCommand
    \/ MonitorDone
    \/ MonitorTimeout
    \/ OtaTick

SpecMonitor == InitMonitor /\ [][NextMonitor]_vars

----------------------------------------------------------------------------
(* CLAIMS *)

Returned == pc \in {"returned", "done"}

Complete(b) == b.total_chunks > 0 /\ \A i \in 0..(b.total_chunks - 1) : i \in DOMAIN b.chunks

(* C1: when the device has published chunks 0..N-1 (each declaring total N)
   and its complete message while the session was connected and before the
   deadline, and no error or no-data event came, the request operation
   returns True. *)
C1_AllArrivedSucceeds ==
    (Returned /\ mon.started /\ got = DOMAIN src /\ mon.pubc /\ mon.term \subseteq {"complete"})
        => retval = "True"

(* C2 as stated: a session to which no qualifying event is delivered
   before the deadline ends timed out: request_timeout is set and the
   operation returns False. *)
C2_NoEventBeforeDeadline ==
    (Returned /\ mon.started /\ mon.term = {}) => (request_timeout /\ retval = "False")

(* C2 amended: a session that entered the wait loop and to which no
   qualifying event is delivered before the main thread's test of
   request_completed that follows the wait loop ends timed out:
   request_timeout is set and the operation returns False; so it is when no
   message is delivered at all. *)
C2_NoEventBeforeTest ==
    /\ (Returned /\ mon.started /\ mon.term = {} /\ mon.late # "late")
           => (request_timeout /\ retval = "False")
    /\ (Returned /\ mon.started /\ ~mon.any) => (request_timeout /\ retval = "False")

C2_Witness ==
    /\ pc = "returned"
    /\ mon.started
    /\ ~mon.any
    /\ cmd_count = 1
    /\ request_timeout
    /\ retval = "False"

(* C3: when a matching error event is delivered before the deadline, the
   operation returns False and no artifact is written, whatever chunks are
   in the buffer. *)
C3_ErrorFails ==
    (Returned /\ "error" \in mon.term) => (retval = "False" /\ ~outfile.written)

(* C8 as stated: when a no-data status is delivered before the deadline,
   the operation returns True. *)
C8_NoDataSucceeds ==
    (Returned /\ "nodata" \in mon.term) => retval = "True"

(* C8 amended: when a no-data status is delivered before the deadline, the
   session does not time out, and the operation returns the result of the
   completeness check of the buffer: False when no chunk is stored. *)
C8_NoDataEndsWait ==
    (Returned /\ "nodata" \in mon.term) =>
        /\ ~request_timeout
        /\ retval = BoolStr(Complete(CurBuf))
        /\ (DOMAIN chunks = {} => retval = "False")

C8_Witness ==
    /\ pc = "returned"
    /\ mon.term = {"nodata"}
    /\ DOMAIN chunks = {}
    /\ ~request_timeout
    /\ retval = "False"

(* C9: once the completion flag or the timeout flag is set, no later step
   of the session changes the verdict the operation returns. *)
C9_TerminalSticky ==
    [][(Waiting /\ (request_completed \/ request_timeout)) =>
          ReturnValue(CurBuf, request_timeout)' = ReturnValue(CurBuf, request_timeout)]_vars

(* C10: in a session with a target device id, whatever another device
   publishes leaves chunks, header_info, total_chunks and request_completed
   (and total_size) as they are. *)
C10_ForeignIgnored ==
    device_id # "None" =>
        \A d \in Devices \ {device_id} : \A m \in ForeignMsgs(d) : Delivery(m) = CurSession

C10_Witness ==
    /\ device_id = "dev1"
    /\ Waiting
    /\ conn = "up"
    /\ mon.foreign
    /\ mon.any

RECURSIVE SrcBytes(_)
SrcBytes(n) == IF n = 0 THEN <<>> ELSE SrcBytes(n - 1) \o B64Decode(src[n - 1].data)

SrcExpected == [written |-> TRUE, bytes |-> SrcBytes(Cardinality(DOMAIN src))]

SrcWellFormed == \A i \in DOMAIN src : i < src[i].total_chunks

(* C4: once every chunk 0..N-1 of a transfer has been processed (each chunk
   declaring a total above its own index), save_coredump produces
   chunks[0] ++ ... ++ chunks[N-1] of the transfer as published, whatever
   the order in which the chunks were processed; the file main writes after
   a successful validation is that byte sequence. *)
C4_OrderIndependent ==
    (got = DOMAIN src /\ SrcWellFormed) =>
        /\ SaveCoredump(CurBuf) = SrcExpected
        /\ (pc = "done" /\ retval = "True" => outfile = SrcExpected)

C4_Witness ==
    /\ pc = "done"
    /\ retval = "True"
    /\ got = 0..2
    /\ SrcWellFormed
    /\ src[0].data # src[1].data
    /\ outfile = SrcExpected

(* C5: _validate_chunks is True exactly when total_chunks > 0 and every
   index of [0, total_chunks) is a key of chunks, and that is the value
   process_mqtt_log returns for a log with coredump messages. *)
C5_ValidateIffComplete ==
    LET complete == total_chunks > 0 /\ \A i \in 0..(total_chunks - 1) : i \in DOMAIN chunks
    IN  /\ ValidateChunks(CurBuf) = complete
        /\ (pc = "returned" /\ any_msg => retval = BoolStr(complete))

C5_Witness ==
    /\ pc = "returned"
    /\ retval = "True"
    /\ total_chunks = 2
    /\ DOMAIN chunks = {0, 1, 2}

(* C6: the missing_chunks list of _validate_chunks holds exactly the
   indices of [0, total_chunks) that are no key of chunks, in ascending
   order. *)
C6_MissingExact ==
    LET ms == MissingChunks(CurBuf)
    IN  /\ \A j \in 1..(Len(ms) - 1) : ms[j] < ms[j + 1]
        /\ {ms[j] : j \in DOMAIN ms} = {i \in 0..(total_chunks - 1) : i \notin DOMAIN chunks}

C6_Witness ==
    /\ pc = "returned"
    /\ retval = "False"
    /\ total_chunks = 3
    /\ DOMAIN chunks = {0, 2}
    /\ MissingChunks(CurBuf) = <<1>>

(* C7: processing again a chunk message that was processed before and whose
   index is stored leaves chunks and total_chunks as they were, and with
   them the result of _validate_chunks and the bytes of save_coredump. *)
C7_RedeliveryNoOp ==
    [][(last'.again /\ last'.idx \in DOMAIN chunks) =>
          /\ chunks' = chunks
          /\ total_chunks' = total_chunks
          /\ ValidateChunks(CurBuf)' = ValidateChunks(CurBuf)
          /\ SaveCoredump(CurBuf)' = SaveCoredump(CurBuf)]_vars

C7_Witness ==
    /\ pc = "log"
    /\ last.again
    /\ last.idx \in DOMAIN chunks
    /\ src[last.idx].total_chunks < total_chunks

----------------------------------------------------------------------------
(* Claims on target adoption, the chunk buffer and the ways a request ends *)

(* C11: in a broadcast session, once one device has produced the first
   qualifying event (the header of dev1 was taken while no other device had
   published), the chunk, header, complete, status and error messages of
   another device leave chunks and request_completed as they are. *)
C11_FirstDeviceIsTarget ==
    (device_id = "None" /\ Waiting /\ ~mon.foreign /\ header_info # "None") =>
        \A m \in ForeignMsgs("dev2") :
            /\ Delivery(m).buf.chunks = chunks
            /\ Delivery(m).completed = request_completed

(* C12 as stated: a chunk message with chunk_index < 0 leaves chunks and
   total_chunks as they are, and every chunk message with chunk_index >= 0,
   whatever its payload, the empty one included, leaves chunks[chunk_index]
   holding the decoded payload and total_chunks at the maximum of its
   previous value and the declared total. *)
C12_AnyPayloadStored ==
    \A p \in ChunkPayloads :
        LET r == ProcessMessage(CurBuf, Msg(ChunkTopic("dev1", 0), p))
            i == p.chunk_index
        IN  /\ i < 0 => (r.chunks = chunks /\ r.total_chunks = total_chunks)
            /\ (i >= 0 /\ B64Valid(p.data)) =>
                   /\ i \in DOMAIN r.chunks
                   /\ r.chunks[i] = B64Decode(p.data)
                   /\ r.total_chunks = (IF p.total_chunks > total_chunks
                                        THEN p.total_chunks ELSE total_chunks)

(* C12 amended: a chunk message with chunk_index < 0, with empty data or
   with data that base64 cannot decode leaves the buffer as it is; every
   chunk message with chunk_index >= 0 and non-empty decodable data leaves
   chunks[chunk_index] holding the decoded payload, the other entries,
   header_info and total_size untouched, and total_chunks at the maximum of
   its previous value and the declared total. *)
C12_ChunkStoredOrDropped ==
    \A p \in ChunkPayloads :
        LET r == ProcessMessage(CurBuf, Msg(ChunkTopic("dev1", 0), p))
            i == p.chunk_index
        IN  IF i >= 0 /\ p.data # "" /\ B64Valid(p.data)
            THEN /\ DOMAIN r.chunks = DOMAIN chunks \union {i}
                 /\ r.chunks[i] = B64Decode(p.data)
                 /\ \A j \in DOMAIN chunks \ {i} : r.chunks[j] = chunks[j]
                 /\ r.total_chunks = (IF p.total_chunks > total_chunks
                                      THEN p.total_chunks ELSE total_chunks)
                 /\ r.header_info = header_info
                 /\ r.total_size = total_size
            ELSE r = CurBuf

C12_Witness ==
    /\ pc = "log"
    /\ DOMAIN chunks = {2}
    /\ chunks[2] = <<67, 68>>
    /\ total_chunks = 1
    /\ decl = 1

(* C13: over every sequence of header, chunk and complete messages,
   total_chunks never decreases, and after each step it is the largest
   total_chunks declared by a chunk message stored so far (0 when there is
   none). *)
C13_TotalIsMaxDeclared ==
    [][total_chunks' >= total_chunks /\ total_chunks' = decl']_vars

C13_Witness ==
    /\ pc = "log"
    /\ decl = 3
    /\ total_chunks = 3
    /\ DOMAIN chunks = {0}
    /\ header_info = "h1"
    /\ total_size = 1

(* C14: once at least one chunk has been stored, every key of chunks is
   below total_chunks. *)
C14_KeysBelowTotal ==
    DOMAIN chunks # {} => \A i \in DOMAIN chunks : i < total_chunks

(* C15: save_coredump fails and writes no file whenever the buffer is not
   complete (total_chunks = 0 or an index of [0, total_chunks) is
   missing). *)
C15_SaveFailsIncomplete ==
    ~Complete(CurBuf) => ~SaveCoredump(CurBuf).written

(* C16 as stated: once an index i has been stored, no later message
   replaces chunks[i] with a different byte sequence. *)
C16_NeverOverwritten ==
    [][\A i \in DOMAIN chunks : i \in DOMAIN chunks' /\ chunks'[i] = chunks[i]]_vars

(* C16 amended: once an index i has been stored it stays stored, and
   chunks[i] is replaced by a different byte sequence only by a later chunk
   message that carries index i itself with different data (the last write
   wins); messages for other indices, headers, complete messages, rejected
   chunks and a chunk i delivered again with the same data leave chunks[i]
   as it is. *)
C16_LastWriteWins ==
    \A m \in LogMsgs :
        LET r == ProcessMessage(CurBuf, m)
        IN  \A i \in DOMAIN chunks :
                /\ i \in DOMAIN r.chunks
                /\ r.chunks[i] # chunks[i] =>
                       /\ AcceptedChunk(m)
                       /\ m.payload.chunk_index = i
                       /\ r.chunks[i] = B64Decode(m.payload.data)

C16_Witness ==
    /\ pc = "log"
    /\ DOMAIN chunks = {0, 1}
    /\ chunks[0] = <<67, 68>>
    /\ chunks[1] = <<65, 66>>
    /\ header_info = "h1"
    /\ total_size = 1

(* C17: in a request session a message whose payload fails to parse (text
   that is no JSON on a header, chunk or complete topic, or chunk data that
   base64 cannot decode) leaves chunks, total_chunks, header_info,
   total_size and request_completed as they are. *)
C17_ParseFailureIsolated ==
    \A d \in Devices :
        \A m \in {Msg(HeaderTopic(d), Garbage), Msg(ChunkTopic(d, 0), Garbage),
                  Msg(CompleteTopic(d), Garbage),
                  Msg(ChunkTopic(d, 0), JsonChunk(0, 1, "QUI"))} :
            Delivery(m) = CurSession

(* what the caller sees of a request: the returned value and the
   request_timeout attribute *)
Outcome == <<retval, request_timeout>>

(* the wait loop ended with request_completed still unset *)
EndedByDeadline == ~(mon.by # "none" /\ mon.tested)

(* the wait loop ended on a matching error event *)
EndedByError == mon.by = "error" /\ mon.tested

(* C18: a request that ends by deadline expiry returns False with
   request_timeout set, and a request that ends on a matching error event
   never has that outcome (request_timeout stays unset), also when the
   error is delivered at the moment the deadline expires. *)
C18_TimeoutDiffersFromError ==
    (Returned /\ mon.started) =>
        /\ EndedByDeadline => Outcome = <<"False", TRUE>>
        /\ EndedByError => (Outcome # <<"False", TRUE>> /\ ~request_timeout)

C18_Witness ==
    /\ pc = "returned"
    /\ mon.started
    /\ mon.by = "error"
    /\ mon.tested
    /\ mon.late = "late"
    /\ Outcome = <<"False", FALSE>>

(* C19: once the broker has refused the connection (on_connect with a
   non-zero rc, nothing subscribed, no command published), the operation
   stops waiting: the wait loop does not go into another sleep, and the
   request is not marked as timed out. *)
C19_RefusedAborts ==
    [][(conn = "refused" /\ cmd_count = 0) =>
          /\ pc = "wait" => pc' # "sleep"
          /\ ~request_timeout']_vars

(* C20: whatever way a request ends (success, device failure, timeout),
   what it reports on return states the number of chunks received, the
   number declared and the indices of the missing chunks. *)
C20_OutcomeReportsChunks ==
    (Returned /\ mon.started) =>
        LET r == ReturnReport(CurBuf, request_timeout)
        IN  /\ r.received = {Cardinality(DOMAIN chunks)}
            /\ r.declared = {total_chunks}
            /\ r.missing = {MissingChunks(CurBuf)}

----------------------------------------------------------------------------
(* Claims on device discovery and the progress of a firmware push *)

SightedSet == {sighted[k] : k \in DOMAIN sighted}

Discovered == pc \in {"disc_returned", "selected", "monitor"} /\ device_id = "None"

(* C21 as stated: with auto_mode the list discover_devices returns holds
   exactly the first device sighted in the window, whatever other telemetry
   arrives. *)
C21_EarlyStopOneDevice ==
    (auto_mode /\ Discovered /\ sighted # <<>>) => device_list = <<sighted[1]>>

(* C21 amended: with auto_mode the discovery loop ends at its first poll
   that finds a device recorded, and the list returned holds, in sorted
   order, the devices sighted from the opening of the window up to the
   moment the list is built (the first one among them); telemetry that
   arrives later does not change the list. *)
C21_EarlyStopAtPoll ==
    [][/\ (auto_mode /\ pc = "disc_sleep" /\ pc' # pc /\ discovered_devices # {})
              => pc' = "disc_build"
       /\ (auto_mode' /\ Discovered') => device_list' = Sorted(SightedSet')]_vars

C21_Witness ==
    /\ auto_mode
    /\ pc = "monitor"
    /\ now - start_time < DiscoveryTimeout
    /\ sighted = <<"dev1", "dev2">>
    /\ device_list = <<"dev1", "dev2">>
    /\ discovered_devices = {"dev1", "dev2"}

(* C22: select_device_auto applied to the list of discover_devices selects
   the device that was sighted first. *)
C22_FirstFoundIsFirstSighted ==
    (auto_mode /\ Discovered /\ pc # "disc_returned" /\ sighted # <<>>)
        => selected_device = sighted[1]

(* C23: discovered_devices holds only devices whose telemetry was delivered
   while the discovery window was open. *)
C23_RegistryOnlyFromWindow == discovered_devices \subseteq SightedSet

StartReceived ==
    \E k \in DOMAIN status_updates :
        status_updates[k] = Msg(StatusTopic("dev1"), Text(StartingText))

(* C24: during a firmware push, after the selected device has announced the
   start, its status 'OTA Progress: 50% (x/y)' with firmware_size S known
   yields one more progress sample, with percentage 50, downloaded_bytes =
   50/100 * S and speed_bps = downloaded_bytes / E for the elapsed time E
   since the start, 0 when E = 0. *)
C24_ProgressSample ==
    (pc = "monitor" /\ selected_device = "dev1" /\ StartReceived) =>
        LET u == OtaOnMessage(CurUpdater,
                              Msg(StatusTopic("dev1"), Text(ProgressText("50"))), now)
            n == Len(u.ota_progress_data)
        IN  /\ n = Len(ota_progress_data) + 1
            /\ u.ota_progress_data[n].percentage = 50
            /\ u.ota_progress_data[n].downloaded_bytes.num * 100
                   = 50 * firmware_size * u.ota_progress_data[n].downloaded_bytes.den
            /\ ota_start_time # <<>> =>
                   LET E == now - ota_start_time[1]
                       v == u.ota_progress_data[n].speed_bps
                   IN  IF E = 0 THEN v.num = 0
                       ELSE v.num * 100 * E = 50 * firmware_size * v.den

(* C25: a status of the selected device that contains 'Starting OTA' or
   'OTA started' clears ota_progress_data and records the time of arrival
   in ota_start_time. *)
C25_StartClearsHistory ==
    (OtaRunning /\ selected_device = "dev1") =>
        \A text \in {StartingText, StartedText} :
            LET u == OtaOnMessage(CurUpdater, Msg(StatusTopic("dev1"), Text(text)), now)
            IN  u.ota_start_time = <<now>> /\ u.ota_progress_data = <<>>

----------------------------------------------------------------------------
(* Claims on the finished transfer, the frame of _process_complete, the
   subscriptions, termination and the dispatch of on_message *)

(* C26: once request_completed or request_timeout is set, no message that
   is delivered until the session is closed changes chunks, total_chunks,
   header_info or total_size. *)
C26_ReadOnlyAfterTerminal ==
    (Waiting /\ (request_completed \/ request_timeout)) =>
        \A d \in Devices : \A m \in ForeignMsgs(d) : Delivery(m).buf = CurBuf

(* C27: _process_complete records total_size and nothing else: chunks,
   total_chunks and header_info stay as they are and _validate_chunks gives
   the same result before and after, for every buffer state and every
   total_size. *)
C27_CompleteFrame ==
    \A s \in 0..MaxSize :
        LET r == ProcessComplete(CurBuf, JsonComplete(s))
        IN  /\ r.total_size = s
            /\ r.chunks = chunks
            /\ r.total_chunks = total_chunks
            /\ r.header_info = header_info
            /\ ValidateChunks(r) = ValidateChunks(CurBuf)
            /\ ProcessMessage(CurBuf, Msg(CompleteTopic("dev1"), JsonComplete(s))) = r

C27_Witness ==
    /\ pc = "log"
    /\ total_size = 1
    /\ DOMAIN chunks = {0}
    /\ total_chunks = 2
    /\ ~ValidateChunks(CurBuf)

(* C28: in a session with a device id, once on_connect has subscribed,
   every message on the header topic, on a chunk topic and on the complete
   topic of that device is handed to on_message. *)
C28_SubscriptionsCoverData ==
    (device_id # "None" /\ loop_running /\ conn = "up") =>
        /\ Routed(Msg(HeaderTopic(device_id), JsonHeader("h1")))
        /\ \A i \in DOMAIN src : Routed(SrcMsg(i))
        /\ Routed(Msg(CompleteTopic(device_id), JsonComplete(MaxSize)))

(* C29: under fair scheduling of the main thread and advancing time, a
   request that has entered its wait loop returns, whether or not any
   message is ever delivered. *)
C29_Terminates == (pc = "wait") ~> Returned

C29_Witness ==
    /\ pc = "returned"
    /\ mon.started
    /\ ~mon.any
    /\ cmd_count = 0
    /\ request_timeout
    /\ now - start_time >= Timeout

(* the class the claim gives a topic: the third segment, and for "coredump"
   the first of '/header', '/chunk/', '/complete' that occurs in the topic *)
Category(topic) ==
    IF Len(topic) < 3 THEN "none"
    ELSE CASE topic[3] = "status" -> "status"
           [] topic[3] = "error" -> "error"
           [] topic[3] = "coredump" ->
                IF HasSeg(topic, "header") THEN "header"
                ELSE IF HasInnerSeg(topic, "chunk") THEN "chunk"
                ELSE IF HasSeg(topic, "complete") THEN "complete"
                ELSE "none"
           [] OTHER -> "none"

(* the sessions that handling m as class c may leave: a Status or Error
   message may end the request and leaves the buffer alone, a header or
   chunk message may change the buffer by its own operation and leaves the
   flag alone, a complete message may record the size and end the request *)
Handled(c, s, m) ==
    CASE c = "status" -> {s, Session(s.buf, TRUE)}
      [] c = "error" -> {s, Session(s.buf, TRUE)}
      [] c = "header" ->
            {s} \union (IF m.payload.json
                        THEN {Session(ProcessHeader(s.buf, m.payload), s.completed)}
                        ELSE {})
      [] c = "chunk" ->
            {s} \union (IF m.payload.json
                        THEN {Session(ProcessChunk(s.buf, m.payload), s.completed)}
                        ELSE {})
      [] c = "complete" ->
            {s, Session(s.buf, TRUE)}
                \union (IF m.payload.json
                        THEN {Session(ProcessComplete(s.buf, m.payload), TRUE)}
                        ELSE {})
      [] OTHER -> {s}

(* topics of every class, one short of three segments, two with another
   third segment, and three in which more than one of the substrings occurs
   (a device named "complete" publishing its header among them) *)
ClassifyMsgs ==
    OtherMsgs("dev1")
    \union {Msg(ChunkTopic("dev1", 0), JsonChunk(0, 1, "QUI=")),
            Msg(<<BASE_TOPIC, "dev1">>, Text(NoDataPhrase)),
            Msg(<<BASE_TOPIC, "dev1", "command">>, Text(NoDataPhrase)),
            Msg(<<BASE_TOPIC, "dev1", "measurement", "complete">>, JsonComplete(MaxSize)),
            Msg(<<BASE_TOPIC, "dev1", "coredump">>, JsonHeader("h1")),
            Msg(<<BASE_TOPIC, "dev1", "coredump", "header", "chunk", "0">>, JsonHeader("h2")),
            Msg(<<BASE_TOPIC, "dev1", "coredump", "chunk", "complete">>, JsonChunk(0, 1, "QUI=")),
            Msg(<<BASE_TOPIC, "complete", "coredump", "header">>, JsonHeader("h2"))}

(* C30: while the session's client is connected, on_message handles every
   message as the class of its topic: Status for a third segment 'status',
   Error for 'error', and for 'coredump' header, chunk or complete by the
   first of '/header', '/chunk/', '/complete' that occurs in the topic; a
   topic of fewer than three segments or with another third segment leaves
   the session and the buffer as they are. *)
C30_ClassifiedByTopic ==
    (loop_running /\ conn = "up") =>
        \A m \in ClassifyMsgs :
            OnMessage(impl, CurSession, m) \in Handled(Category(m.topic), CurSession, m)

----------------------------------------------------------------------------
(* Claims on the OTA monitor loop, repeated requests and the two request
   implementations *)

(* what the control flow of main and of on_message reads of an updater *)
Control(u) == <<u.discovered_devices, u.selected_device, u.status_updates>>

(* progress states an updater can be given: no start time or one, no
   sample or one, no firmware size or one *)
ProgressStates ==
    {<<st, pd, fs>> :
        st \in {<<>>, <<0>>},
        pd \in {<<>>, <<[time |-> 0, percentage |-> 50,
                         downloaded_bytes |-> Frac(50 * FirmwareSize, 100),
                         speed_bps |-> Frac(0, 1)]>>},
        fs \in {0, FirmwareSize}}

WithProgress(u, p) ==
    [u EXCEPT !.ota_start_time = p[1], !.ota_progress_data = p[2], !.firmware_size = p[3]]

(* C31: an updater that differs from the running one only in its progress
   state (ota_start_time, ota_progress_data, firmware_size) is left by every
   message with the same registry, selected device and status_updates, and
   the test of the monitor loop gives the same answer on both, before and
   after the message. *)
C31_ProgressNotControl ==
    \A p \in ProgressStates :
        LET v == WithProgress(CurUpdater, p)
        IN  /\ RestartIn(v.status_updates) = RestartSeen
            /\ \A m \in OtaMsgs :
                   LET a == OtaOnMessage(CurUpdater, m, now)
                       b == OtaOnMessage(v, m, now)
                   IN  /\ Control(a) = Control(b)
                       /\ RestartIn(a.status_updates) = RestartIn(b.status_updates)

C31_Witness ==
    /\ pc = "monitor"
    /\ firmware_size = FirmwareSize
    /\ RestartSeen
    /\ \E k \in DOMAIN status_updates :
           Contains(status_updates[k].payload.text, ProgressMarker)

(* C32: a call of the request operation on an object that has served an
   earlier request enters its wait loop with an empty chunk buffer,
   total_chunks = 0 and both the completion and the timeout flag false. *)
C32_FreshSession ==
    [][(pc \in {"returned", "done"} /\ pc' = "wait") =>
          /\ chunks' = NoChunks
          /\ total_chunks' = 0
          /\ ~request_completed'
          /\ ~request_timeout']_vars

(* C33: whenever the request operation has returned True, request_timeout
   is false, total_chunks > 0 and every index below total_chunks is a key of
   chunks. *)
C33_TrueOnlyIfComplete ==
    (Returned /\ retval = "True") =>
        /\ ~request_timeout
        /\ total_chunks > 0
        /\ \A i \in 0..(total_chunks - 1) : i \in DOMAIN chunks

C33_Witness ==
    /\ pc = "returned"
    /\ retval = "True"
    /\ total_chunks >= 2
    /\ mon.by = "error"

(* C34: once the request operation has returned, request_completed and
   request_timeout are not both true. *)
C34_FlagsExclusive == Returned => ~(request_completed /\ request_timeout)

(* a message of the selected device's status topic that holds 'restart' was
   handed to on_message after the OTA command had been published *)
RestartAfterCommand ==
    /\ sent_at >= 0
    /\ \E k \in DOMAIN status_updates :
           /\ k > sent_at
           /\ status_updates[k].topic = StatusTopic(selected_device)
           /\ RestartIn(<<status_updates[k]>>)

(* the monitor loop of main ends *)
MonitorEnds == pc = "monitor" /\ pc' = "ota_exit"

(* C35: when a restart status of the selected device has been received
   after the OTA command, the monitor loop does not end by its timeout,
   whatever else has been received since. *)
C35_RestartCompletes ==
    [][(MonitorEnds /\ RestartAfterCommand) => RestartSeen]_vars

(* C36: the monitor loop reports completion only when a restart status of
   the selected device has been received after the OTA command. *)
C36_CompletionOnlyByRestart ==
    [][(MonitorEnds /\ RestartSeen) => RestartAfterCommand]_vars

(* C37: in a request session the 'coredump' command is published at most
   once, and once the session is connected exactly once, whatever number of
   times on_connect runs. *)
C37_CommandOnce ==
    /\ cmd_count <= 1
    /\ conn = "up" => cmd_count = 1

(* the session after a device has published m, had the request been made
   through implementation im *)
DeliveryOf(im, m) ==
    IF loop_running /\ conn = "up" /\ \E f \in Subscriptions(im, device_id) : Matches(f, m.topic)
    THEN OnMessage(im, CurSession, m)
    ELSE CurSession

(* C38: from the same session state (same target, same messages so far),
   every message a device publishes leaves chunks, total_chunks,
   header_info, total_size and request_completed the same whether the
   request runs through CoreDumpAnalyzer or through CoreDumpRequester. *)
C38_SameInBoth ==
    \A m \in ForeignMsgs("dev1") :
        DeliveryOf("analyzer", m) = DeliveryOf("requester", m)

(* C39: while process_live_mqtt listens, every coredump header, chunk and
   complete message dev1 publishes is handed to _process_message, and when
   dev1 has published its whole transfer during the window the operation
   returns True. *)
C39_LiveCaptures ==
    /\ (pc = "live_sleep" /\ conn = "up") =>
           /\ Routed(Msg(HeaderTopic("dev1"), JsonHeader("h1")))
           /\ \A i \in DOMAIN src : Routed(SrcMsg(i))
           /\ Routed(Msg(CompleteTopic("dev1"), JsonComplete(MaxSize)))
    /\ (Returned /\ got = DOMAIN src) => retval = "True"

============================================================================
